---- MODULE Spec2Model ----
(***************************************************************************)
(* The weather RAG pipeline of main.py: get_current_weather,               *)
(* initialize_components, fetch_and_store_weather_data, query_weather,     *)
(* run_test_queries and main, run any number of times over one persistent  *)
(* Pinecone account (the set of indexes and the records of the index).     *)
(*                                                                         *)
(* Python values are modelled as records so that any two of them can be    *)
(* compared: None is [type |-> "NoneType"], a number n is Num(n), a dict   *)
(* is a function from its keys.  Similarity scores are in hundredths       *)
(* (0.3 is 30), coordinates in hundredths of a degree.                     *)
(*                                                                         *)
(* The embedding model and the vector store answer every call: encode is   *)
(* a deterministic function of the text, upsert replaces by id, and a      *)
(* top-1 query over a non-empty index returns its best-scored record.      *)
(* Only requests.get may raise.                                            *)
(***************************************************************************)
EXTENDS Integers, Sequences, FiniteSets, TLC

VARIABLES
    indexes,       \* the indexes of the Pinecone account: name -> configuration
    store,         \* the records of index "city-weather-data"
    pc,            \* position of main: "start", "ingest", "queries", "done", "crashed"
    hadIndex,      \* pc.has_index(index_name) as main found it in this execution
    created,       \* pc.create_index was called in this execution
    slept,         \* seconds spent in time.sleep in this execution
    i,             \* enumerate index of the next iteration of the ingestion loop
    weather_data,  \* the dict fetch_and_store_weather_data builds
    returned,      \* what fetch_and_store_weather_data returned to main (None before)
    fetchLog,      \* outcome of requests.get for each city fetched in this execution
    requests,      \* the params of every requests.get issued in this execution
    upserts,       \* the records handed to index.upsert in this execution
    asked,         \* the prompts run_test_queries has passed to query_weather
    lastQuery,     \* the last query_weather call: matches, fields read, answer
    lastFetched,   \* per city, the snapshot of its most recent HTTP 200 fetch
    prevValid,     \* the previous execution's ingestion returned
    prevLog,       \* fetchLog of the last ingestion that returned
    prevStore      \* store as the last ingestion that returned left it

vars == <<indexes, store, pc, hadIndex, created, slept, i, weather_data, returned,
          fetchLog, requests, upserts, asked, lastQuery, lastFetched,
          prevValid, prevLog, prevStore>>

----------------------------------------------------------------------------
(* Python values *)

None == [type |-> "NoneType"]

Num(n) == [type |-> "int", v |-> n]

EmptyDict == <<>>

\* dict.get(key, default)
DictGet(d, key, default) == IF key \in DOMAIN d THEN d[key] ELSE default

\* bool(x) for x a dict or None, as `if weather_info:` evaluates it
Truthy(x) == x # None /\ DOMAIN x # {}

\* str(x) inside an f-string, for x None or a number
Str(x) == IF x = None THEN "None" ELSE ToString(x.v)

----------------------------------------------------------------------------
(* main's configuration *)

cities == <<
    [name |-> "Madrid",    lat |-> 4042, lon |-> -370],
    [name |-> "Barcelona", lat |-> 4139, lon |-> 216],
    [name |-> "Bilbao",    lat |-> 4326, lon |-> -293] >>

test_queries == <<
    "What's the weather in Madrid?",
    "How's Barcelona today?",
    "Temperature in Bilbao",
    "Madrid weather",
    "What about Barcelona?" >>

index_name == "city-weather-data"

\* the index pc.create_index creates (384 dimensions, cosine metric)
NewIndex == [dimension |-> 384, metric |-> "cosine",
             cloud |-> "aws", region |-> "us-east-1"]

SleepSeconds == 30

\* the confidence threshold 0.3, in hundredths
Threshold == 30

CityIds == {cities[k].name : k \in 1..Len(cities)}

----------------------------------------------------------------------------
(* The collaborators: weather endpoint, embedding model, vector store *)

\* bodies the weather endpoint answers with: two full readings, one without
\* the temperature field, one without the current_weather object
Bodies == {
    [current_weather |-> [temperature |-> Num(15), windspeed |-> Num(10)]],
    [current_weather |-> [temperature |-> Num(22), windspeed |-> Num(7)]],
    [current_weather |-> [windspeed |-> Num(10)]],
    EmptyDict }

\* what requests.get does: a 200 response with one of the bodies, a 404
\* response (its body is never read), or a transport-level exception
Outcomes ==
    {[kind |-> "response", status_code |-> 200, body |-> b] : b \in Bodies}
    \cup {[kind |-> "response", status_code |-> 404, body |-> EmptyDict]}
    \cup {[kind |-> "error"]}

\* a wider choice of responses, for one execution: a reading of zero and below
\* zero with fields the program does not use, and non-200 statuses (among them
\* 201) that carry a body
WideBodies == Bodies \cup {
    [latitude |-> Num(4042),
     current_weather |-> [temperature |-> Num(-3), windspeed |-> Num(0),
                          winddirection |-> Num(180)]] }

WideOutcomes ==
    {[kind |-> "response", status_code |-> s, body |-> b] :
        s \in {200, 201, 404, 500}, b \in WideBodies}
    \cup {[kind |-> "error"]}

\* embedding_model.encode on one text: a deterministic vector per text
Embed(text) ==
    CASE text = "Madrid"    -> <<1, 0, 0>>
      [] text = "Barcelona" -> <<0, 1, 0>>
      [] text = "Bilbao"    -> <<0, 0, 1>>
      [] OTHER              -> <<Len(text) % 2, Len(text) % 3, Len(text) % 5>>

\* embedding_model.encode on a list: one vector per text, in order
Encode(texts) == [k \in 1..Len(texts) |-> Embed(texts[k])]

\* index.upsert of one record: insert, or replace the record of the same id
Upsert(S, rec) == {r \in S : r.id # rec.id} \cup {rec}

\* scores the index may report for a stored record, in hundredths
Scores == {29, 30, 31}

\* index.query(top_k=1, include_metadata=True): the possible match lists, given
\* the score sc[id] of every stored record: the best-scored record, or none
QueryTop1(S, sc) ==
    IF S = {} THEN {<<>>}
    ELSE {<<[id |-> r.id, score |-> sc[r.id], metadata |-> r.metadata]>> :
            r \in {q \in S : \A o \in S : sc[o.id] <= sc[q.id]}}

\* the match lists index.query may return over S, whatever the prompt's vector
\* scores against the stored vectors
PossibleMatches(S) ==
    UNION {QueryTop1(S, sc) : sc \in [{r.id : r \in S} -> Scores]}

----------------------------------------------------------------------------
(* get_current_weather *)

\* variant: a non-200 response gives a snapshot of nulls instead of None
GetCurrentWeather_EmptyOnFailure(city_name, latitude, longitude, outcome) ==
    LET params == [latitude |-> latitude, longitude |-> longitude,
                   current_weather |-> TRUE]
        data == IF outcome.kind = "response" /\ outcome.status_code = 200
                THEN DictGet(outcome.body, "current_weather", EmptyDict)
                ELSE EmptyDict
    IN  IF outcome.kind = "error"
        THEN [requests |-> <<params>>, raised |-> TRUE, value |-> None]
        ELSE [requests |-> <<params>>, raised |-> FALSE,
              value |-> [temperature |-> DictGet(data, "temperature", None),
                         wind_speed  |-> DictGet(data, "windspeed", None)]]

\* variant: a 200 response without a current_weather object gives None
GetCurrentWeather_NoneOnMissing(city_name, latitude, longitude, outcome) ==
    LET params == [latitude |-> latitude, longitude |-> longitude,
                   current_weather |-> TRUE]
    IN  IF outcome.kind = "error"
        THEN [requests |-> <<params>>, raised |-> TRUE, value |-> None]
        ELSE IF outcome.status_code = 200
                  /\ "current_weather" \in DOMAIN outcome.body
        THEN LET data == outcome.body["current_weather"]
             IN  [requests |-> <<params>>, raised |-> FALSE,
                  value |-> [temperature |-> DictGet(data, "temperature", None),
                             wind_speed  |-> DictGet(data, "windspeed", None)]]
        ELSE [requests |-> <<params>>, raised |-> FALSE, value |-> None]

\* variant: a transport failure is caught and gives None
GetCurrentWeather_SwallowError(city_name, latitude, longitude, outcome) ==
    LET params == [latitude |-> latitude, longitude |-> longitude,
                   current_weather |-> TRUE]
    IN  IF outcome.kind = "response" /\ outcome.status_code = 200
        THEN LET data == DictGet(outcome.body, "current_weather", EmptyDict)
             IN  [requests |-> <<params>>, raised |-> FALSE,
                  value |-> [temperature |-> DictGet(data, "temperature", None),
                             wind_speed  |-> DictGet(data, "windspeed", None)]]
        ELSE [requests |-> <<params>>, raised |-> FALSE, value |-> None]

\* the requests it issues, whether it raises, and the value it returns
GetCurrentWeather(city_name, latitude, longitude, outcome) ==
    LET params == [latitude |-> latitude, longitude |-> longitude,
                   current_weather |-> TRUE]
    IN  IF outcome.kind = "error"
        THEN [requests |-> <<params>>, raised |-> TRUE, value |-> None]
        ELSE IF outcome.status_code = 200
        THEN LET data == DictGet(outcome.body, "current_weather", EmptyDict)
             IN  [requests |-> <<params>>, raised |-> FALSE,
                  value |-> [temperature |-> DictGet(data, "temperature", None),
                             wind_speed  |-> DictGet(data, "windspeed", None)]]
        ELSE [requests |-> <<params>>, raised |-> FALSE, value |-> None]

----------------------------------------------------------------------------
(* initialize_components *)

HasIndex(name) == name \in DOMAIN indexes

\* whether initialize_components creates the index
MustCreate(name) == ~HasIndex(name)

\* variant: the wait is taken whether or not the index was created
SleepAfter_Always(didCreate) == SleepSeconds

\* seconds initialize_components sleeps, given whether it created the index
SleepAfter(didCreate) == IF didCreate THEN SleepSeconds ELSE 0

InitializeComponents ==
    /\ pc = "start"
    /\ LET create == MustCreate(index_name)
       IN  /\ hadIndex' = HasIndex(index_name)
           /\ indexes' = IF create
                         THEN [n \in DOMAIN indexes \cup {index_name} |->
                                 IF n = index_name THEN NewIndex ELSE indexes[n]]
                         ELSE indexes
           /\ created' = create
           /\ slept' = slept + SleepAfter(create)
    /\ pc' = "ingest"
    /\ UNCHANGED <<store, i, weather_data, returned, fetchLog, requests, upserts,
                   asked, lastQuery, lastFetched, prevValid, prevLog, prevStore>>

----------------------------------------------------------------------------
(* fetch_and_store_weather_data *)

\* variant: the names are embedded in another order than the loop visits them
CityNames_Reversed(cs) == [k \in 1..Len(cs) |-> cs[Len(cs) + 1 - k].name]

\* list(cities.keys())
CityNames(cs) == [k \in 1..Len(cs) |-> cs[k].name]

\* variant: the metadata fields are filled from each other's reading
CityRecord_SwappedMetadata(city, idx, city_embeddings, weather_info) ==
    [id |-> city,
     values |-> city_embeddings[idx + 1],
     metadata |-> [temperature |-> weather_info.wind_speed,
                   wind_speed  |-> weather_info.temperature]]

\* variant: the record id is derived from the city and its reading
CityRecord_IdWithReading(city, idx, city_embeddings, weather_info) ==
    [id |-> city \o "-" \o Str(weather_info.temperature),
     values |-> city_embeddings[idx + 1],
     metadata |-> [temperature |-> weather_info.temperature,
                   wind_speed  |-> weather_info.wind_speed]]

\* the record upserted for the city at enumerate index idx
CityRecord(city, idx, city_embeddings, weather_info) ==
    [id |-> city,
     values |-> city_embeddings[idx + 1],
     metadata |-> [temperature |-> weather_info.temperature,
                   wind_speed  |-> weather_info.wind_speed]]

\* weather_data[city] = weather_info
DictSet(d, key, value) ==
    [k \in DOMAIN d \cup {key} |-> IF k = key THEN value ELSE d[k]]

\* one iteration of the loop: fetch, then upsert if the fetch gave a snapshot;
\* O is the set of outcomes requests.get may have
IngestStepOver(O) ==
    /\ pc = "ingest"
    /\ i < Len(cities)
    /\ \E outcome \in O :
         LET c == cities[i + 1]
             city_embeddings == Encode(CityNames(cities))
             got == GetCurrentWeather(c.name, c.lat, c.lon, outcome)
             weather_info == got.value
             rec == CityRecord(c.name, i, city_embeddings, weather_info)
         IN  /\ fetchLog' = Append(fetchLog, outcome)
             /\ requests' = requests \o got.requests
             /\ IF got.raised
                THEN /\ pc' = "crashed"
                     /\ prevValid' = FALSE
                     /\ prevLog' = <<>>
                     /\ prevStore' = {}
                     /\ UNCHANGED <<store, i, weather_data, upserts, lastFetched>>
                ELSE /\ i' = i + 1
                     /\ UNCHANGED <<pc, prevValid, prevLog, prevStore>>
                     /\ IF Truthy(weather_info)
                        THEN /\ weather_data' = DictSet(weather_data, c.name, weather_info)
                             /\ store' = Upsert(store, rec)
                             /\ upserts' = Append(upserts, rec)
                             /\ lastFetched' = [lastFetched EXCEPT ![c.name] = weather_info]
                        ELSE UNCHANGED <<store, weather_data, upserts, lastFetched>>
    /\ UNCHANGED <<indexes, hadIndex, created, slept, returned, asked, lastQuery>>

IngestStep == IngestStepOver(Outcomes)

IngestStepWide == IngestStepOver(WideOutcomes)

\* return weather_data, after the last iteration
IngestReturn ==
    /\ pc = "ingest"
    /\ i = Len(cities)
    /\ returned' = weather_data
    /\ pc' = "queries"
    /\ prevValid' = TRUE
    /\ prevLog' = fetchLog
    /\ prevStore' = store
    /\ UNCHANGED <<indexes, store, hadIndex, created, slept, i, weather_data,
                   fetchLog, requests, upserts, asked, lastQuery, lastFetched>>

----------------------------------------------------------------------------
(* query_weather *)

NotFoundMessage ==
    "Sorry, I couldn't find weather information for any city in your query."

LowConfidenceMessage(city_name) ==
    "I found a possible match for '" \o city_name
        \o "', but I'm not very confident. Could you be more specific?"

\* the unit after the temperature is a degree sign followed by C in the source;
\* it is spelled "degC" here to keep the strings ASCII
WeatherMessage(city_name, temperature, wind_speed) ==
    "Today's weather in " \o city_name \o ":\n- Temperature: "
        \o Str(temperature) \o "degC\n- Wind speed: " \o Str(wind_speed) \o " km/h"

\* variant: a score of exactly 0.3 is rejected
LowConfidence_Inclusive(similarity_score) == similarity_score <= Threshold

\* similarity_score < 0.3
LowConfidence(similarity_score) == similarity_score < Threshold

\* variant: an empty match list is answered as a low-confidence match
QueryWeather_EmptyAsLowConfidence(matches) ==
    IF Len(matches) = 0 \/ LowConfidence(matches[1].score)
    THEN [answer |-> LowConfidenceMessage(IF Len(matches) = 0 THEN "None"
                                          ELSE matches[1].id),
          read |-> IF Len(matches) = 0 THEN {} ELSE {"id", "metadata", "score"}]
    ELSE [answer |-> WeatherMessage(matches[1].id,
                         DictGet(matches[1].metadata, "temperature", None),
                         DictGet(matches[1].metadata, "wind_speed", None)),
          read |-> {"id", "metadata", "score"}]

\* variant: the wind speed is read under the weather endpoint's key
QueryWeather_WrongKey(matches) ==
    IF Len(matches) = 0
    THEN [answer |-> NotFoundMessage, read |-> {}]
    ELSE IF LowConfidence(matches[1].score)
    THEN [answer |-> LowConfidenceMessage(matches[1].id),
          read |-> {"id", "metadata", "score"}]
    ELSE [answer |-> WeatherMessage(matches[1].id,
                         DictGet(matches[1].metadata, "temperature", None),
                         DictGet(matches[1].metadata, "windspeed", None)),
          read |-> {"id", "metadata", "score"}]

\* the answer and the fields of the match that were read, given the match list
QueryWeather(matches) ==
    IF Len(matches) = 0
    THEN [answer |-> NotFoundMessage, read |-> {}]
    ELSE LET best_match == matches[1]
             city_name == best_match.id
             metadata == best_match.metadata
             similarity_score == best_match.score
         IN  IF LowConfidence(similarity_score)
             THEN [answer |-> LowConfidenceMessage(city_name),
                   read |-> {"id", "metadata", "score"}]
             ELSE [answer |-> WeatherMessage(city_name,
                                  DictGet(metadata, "temperature", None),
                                  DictGet(metadata, "wind_speed", None)),
                   read |-> {"id", "metadata", "score"}]

----------------------------------------------------------------------------
(* run_test_queries *)

\* one iteration of the loop over test_queries
QueryStep ==
    /\ pc = "queries"
    /\ Len(asked) < Len(test_queries)
    /\ LET query == test_queries[Len(asked) + 1]
           prompt_embedding == Encode(<<query>>)
       IN  \E matches \in PossibleMatches(store) :
             LET out == QueryWeather(matches)
             IN  /\ asked' = Append(asked, query)
                 /\ lastQuery' = [prompt |-> query,
                                  vector |-> prompt_embedding[1],
                                  matches |-> matches,
                                  read |-> out.read,
                                  answer |-> out.answer]
    /\ UNCHANGED <<indexes, store, pc, hadIndex, created, slept, i, weather_data,
                   returned, fetchLog, requests, upserts, lastFetched, prevValid,
                   prevLog, prevStore>>

\* run_test_queries and main return
Finish ==
    /\ pc = "queries"
    /\ Len(asked) = Len(test_queries)
    /\ pc' = "done"
    /\ UNCHANGED <<indexes, store, hadIndex, created, slept, i, weather_data,
                   returned, fetchLog, requests, upserts, asked, lastQuery,
                   lastFetched, prevValid, prevLog, prevStore>>

----------------------------------------------------------------------------
(* main, executed again over the same Pinecone account *)

NoQuery == [prompt |-> "", vector |-> <<>>, matches |-> <<>>, read |-> {},
            answer |-> ""]

Restart ==
    /\ pc \in {"done", "crashed"}
    /\ pc' = "start"
    /\ hadIndex' = FALSE
    /\ created' = FALSE
    /\ slept' = 0
    /\ i' = 0
    /\ weather_data' = EmptyDict
    /\ returned' = None
    /\ fetchLog' = <<>>
    /\ requests' = <<>>
    /\ upserts' = <<>>
    /\ asked' = <<>>
    /\ lastQuery' = NoQuery
    /\ UNCHANGED <<indexes, store, lastFetched, prevValid, prevLog, prevStore>>

Init ==
    /\ indexes \in {EmptyDict, [n \in {index_name} |-> NewIndex]}
    /\ store = {}
    /\ pc = "start"
    /\ hadIndex = FALSE
    /\ created = FALSE
    /\ slept = 0
    /\ i = 0
    /\ weather_data = EmptyDict
    /\ returned = None
    /\ fetchLog = <<>>
    /\ requests = <<>>
    /\ upserts = <<>>
    /\ asked = <<>>
    /\ lastQuery = NoQuery
    /\ lastFetched = [c \in CityIds |-> None]
    /\ prevValid = FALSE
    /\ prevLog = <<>>
    /\ prevStore = {}

Next ==
    \/ InitializeComponents
    \/ IngestStep
    \/ IngestReturn
    \/ QueryStep
    \/ Finish
    \/ Restart

Spec == Init /\ [][Next]_vars

\* one execution up to the return of fetch_and_store_weather_data, over the
\* wider choice of responses
NextIngestOnce ==
    \/ InitializeComponents
    \/ IngestStepWide
    \/ IngestReturn

SpecIngestOnce == Init /\ [][NextIngestOnce]_vars

----------------------------------------------------------------------------
(* Vocabulary of the properties *)

\* whether string sub occurs in string s
Contains(s, sub) ==
    \E k \in 1..(Len(s) - Len(sub) + 1) : SubSeq(s, k, k + Len(sub) - 1) = sub

\* fetch_and_store_weather_data has returned in this execution
IngestReturned == pc \in {"queries", "done"}

\* positions of the fetches of this execution that got an HTTP 200 response
Succeeded == {k \in 1..Len(fetchLog) :
                fetchLog[k].kind = "response" /\ fetchLog[k].status_code = 200}

\* positions of the fetches of this execution that got a non-200 response
Failed == {k \in 1..Len(fetchLog) :
                fetchLog[k].kind = "response" /\ fetchLog[k].status_code # 200}

\* the temperature and wind speed the body of the k-th fetch carries, a field
\* or the whole current_weather object being possibly missing
Reading(k) ==
    LET body == fetchLog[k].body
        cw == IF "current_weather" \in DOMAIN body
              THEN body["current_weather"] ELSE EmptyDict
    IN  [temperature |-> IF "temperature" \in DOMAIN cw THEN cw["temperature"] ELSE None,
         wind_speed  |-> IF "windspeed" \in DOMAIN cw THEN cw["windspeed"] ELSE None]

RecordsOf(S, city) == {r \in S : r.id = city}

UpsertedIds == {upserts[k].id : k \in 1..Len(upserts)}

\* query_weather has been called in this execution and got a match
Matched == asked # <<>> /\ Len(lastQuery.matches) > 0

IsWeatherString(s) ==
    /\ Len(s) >= Len("Today's weather in ")
    /\ SubSeq(s, 1, Len("Today's weather in ")) = "Today's weather in "

----------------------------------------------------------------------------
(* The properties *)

\* C1: when fetch_and_store_weather_data has returned, the keys of the returned
\* map are exactly the cities whose fetch got HTTP 200, each mapped to the
\* temperature and wind speed that fetch carried, and the store holds for each
\* a record whose id is the city and whose metadata is that same reading.
C1_ReturnedMapAndStore ==
    IngestReturned =>
        /\ DOMAIN returned = {cities[k].name : k \in Succeeded}
        /\ \A k \in Succeeded :
             /\ returned[cities[k].name] = Reading(k)
             /\ \E r \in store : r.id = cities[k].name /\ r.metadata = Reading(k)

\* a run where Madrid and Bilbao were fetched with 200 and Barcelona was not
C1_Witness ==
    /\ IngestReturned
    /\ Succeeded = {1, 3}
    /\ returned["Madrid"].temperature = Num(15)
    /\ returned["Bilbao"].temperature = Num(22)

\* C2 as stated: after the ingestion returned, every city whose fetch got a
\* non-200 response is absent from the returned map and has no record in the
\* store, also when the index was populated by an earlier execution.
C2_Original ==
    IngestReturned =>
        \A k \in Failed :
            /\ cities[k].name \notin DOMAIN returned
            /\ RecordsOf(store, cities[k].name) = {}

\* C2 amended: after the ingestion returned, every city whose fetch got a
\* non-200 response is absent from the returned map and was not upserted in
\* this execution; the store has a record for it exactly when an earlier
\* execution fetched it with 200, and then it is that earlier reading.
C2_SkippedNotUpserted ==
    IngestReturned =>
        \A k \in Failed :
            LET city == cities[k].name
            IN  /\ city \notin DOMAIN returned
                /\ city \notin UpsertedIds
                /\ (lastFetched[city] = None) <=> (RecordsOf(store, city) = {})
                /\ \A r \in RecordsOf(store, city) : r.metadata = lastFetched[city]

\* a run that skipped Madrid while the index still holds Madrid's earlier record
C2_Witness ==
    /\ IngestReturned
    /\ 1 \in Failed
    /\ RecordsOf(store, "Madrid") # {}
    /\ 2 \in Succeeded

\* C3: the store holds at most one record per city name, whatever the number of
\* executions, and an ingestion whose fetch outcomes equal those of the
\* previous ingestion leaves the store as the previous ingestion left it.
C3_IdempotentUpsert ==
    /\ \A r \in store : r.id \in CityIds
    /\ \A r1, r2 \in store : r1.id = r2.id => r1 = r2
    /\ (pc = "ingest" /\ i = Len(cities) /\ prevValid /\ fetchLog = prevLog)
          => store = prevStore

\* a second ingestion with the outcomes of the first, one of them a 200, over a
\* store that already holds the record
C3_Witness ==
    /\ pc = "ingest" /\ i = Len(cities) /\ prevValid /\ fetchLog = prevLog
    /\ Succeeded # {} /\ Failed # {}
    /\ Cardinality(store) = 3

\* C4: query_weather answers with the weather string exactly when there is a
\* top-1 match whose score is at least 0.3 (0.3 itself is accepted); with a
\* match below 0.3 it answers with the low-confidence message naming the
\* matched id, which shows neither the temperature nor the wind speed.
C4_ConfidenceGate ==
    asked # <<>> =>
        LET q == lastQuery
            confident == Len(q.matches) > 0 /\ q.matches[1].score >= 30
        IN  /\ IsWeatherString(q.answer) <=> confident
            /\ confident =>
                 q.answer = WeatherMessage(q.matches[1].id,
                                           q.matches[1].metadata.temperature,
                                           q.matches[1].metadata.wind_speed)
            /\ (Len(q.matches) > 0 /\ q.matches[1].score < 30) =>
                 /\ q.answer = LowConfidenceMessage(q.matches[1].id)
                 /\ Contains(q.answer, q.matches[1].id)
                 /\ ~Contains(q.answer, Str(q.matches[1].metadata.temperature))
                 /\ ~Contains(q.answer, Str(q.matches[1].metadata.wind_speed))

\* a match scored exactly 0.3 answered with the weather string
C4_Witness ==
    /\ Matched
    /\ lastQuery.matches[1].score = 30
    /\ lastQuery.matches[1].metadata.temperature = Num(15)
    /\ IsWeatherString(lastQuery.answer)

\* a match scored 0.29 answered with the low-confidence message
C4_WitnessLow ==
    /\ Matched
    /\ lastQuery.matches[1].score = 29
    /\ lastQuery.answer = LowConfidenceMessage("Bilbao")

\* C5: query_weather answers with the fixed not-found message whenever the
\* top-1 lookup gives no match, which is the case for every prompt over an
\* empty store, and it then reads no id, score or metadata.
C5_NotFound ==
    asked # <<>> =>
        /\ store = {} => lastQuery.matches = <<>>
        /\ lastQuery.matches = <<>> =>
             /\ lastQuery.answer =
                  "Sorry, I couldn't find weather information for any city in your query."
             /\ lastQuery.read = {}

\* the five prompts answered over an empty store
C5_Witness ==
    /\ pc = "done"
    /\ store = {}
    /\ asked = test_queries
    /\ lastQuery.matches = <<>>

\* C6: get_current_weather issues one request per invocation; a non-200
\* response (404, 500, also 201 with a full body) gives None without an
\* exception, so the city is skipped; a 200 response gives the snapshot of the
\* body's current_weather, a missing field or object giving a null field, and
\* the city counts as fetched.  Checked under SpecIngestOnce.
C6_FetchResult ==
    /\ Len(requests) = Len(fetchLog)
    /\ \A k \in 1..Len(fetchLog) :
         requests[k] = [latitude |-> cities[k].lat, longitude |-> cities[k].lon,
                        current_weather |-> TRUE]
    /\ \A k \in Failed :
         /\ cities[k].name \notin DOMAIN weather_data
         /\ (k = Len(fetchLog) => pc # "crashed")
    /\ \A k \in Succeeded :
         /\ cities[k].name \in DOMAIN weather_data
         /\ weather_data[cities[k].name] = Reading(k)
         /\ cities[k].name \in UpsertedIds

\* Madrid answered 200 without a current_weather object, Barcelona 200 without
\* the temperature field, Bilbao 201 with a full reading
C6_Witness ==
    /\ Len(fetchLog) = 3
    /\ Succeeded = {1, 2}
    /\ Failed = {3}
    /\ DOMAIN weather_data = {"Madrid", "Barcelona"}
    /\ fetchLog[1].body = EmptyDict
    /\ weather_data["Madrid"] = [temperature |-> None, wind_speed |-> None]
    /\ weather_data["Barcelona"] = [temperature |-> None, wind_speed |-> Num(10)]
    /\ fetchLog[3].status_code = 201
    /\ "current_weather" \in DOMAIN fetchLog[3].body
    /\ "Bilbao" \notin DOMAIN weather_data
    /\ pc = "queries"

\* C7: a query whose top-1 match is city c with score at least 0.3 answers
\* with a string containing c's name and the temperature and wind speed of the
\* most recent HTTP 200 fetch of c, and no query changes the store.
C7_StateInv ==
    /\ (Matched /\ lastQuery.matches[1].score >= 30) =>
          LET c == lastQuery.matches[1].id
          IN  /\ lastFetched[c] # None
              /\ Contains(lastQuery.answer, c)
              /\ Contains(lastQuery.answer, Str(lastFetched[c].temperature) \o "degC")
              /\ Contains(lastQuery.answer, Str(lastFetched[c].wind_speed) \o " km/h")
    /\ IngestReturned => store = prevStore

C7_EndToEnd == [](C7_StateInv) /\ [][QueryStep => store' = store]_vars

\* Madrid was fetched as 15/10 and later as 22/7, and a confident query on
\* Madrid answers 22 and 7
C7_Witness ==
    /\ Matched
    /\ lastQuery.matches[1].score = 31
    /\ lastQuery.matches[1].id = "Madrid"
    /\ lastFetched["Madrid"] = [temperature |-> Num(22), wind_speed |-> Num(7)]
    /\ 1 \in Failed
    /\ Contains(lastQuery.answer, "22") /\ Contains(lastQuery.answer, "7")

\* C8: the index is initialised before the first fetch or upsert, the
\* ingestion has returned before the first query, the queries run in list
\* order; the index is created (384, cosine) only when absent, and the fixed
\* wait happens exactly when this execution created it.
C8_PhaseOrder ==
    /\ pc = "start" => (fetchLog = <<>> /\ upserts = <<>> /\ asked = <<>>)
    /\ pc # "start" =>
         /\ index_name \in DOMAIN indexes
         /\ indexes[index_name].dimension = 384
         /\ indexes[index_name].metric = "cosine"
         /\ created <=> ~hadIndex
         /\ slept = (IF created THEN 30 ELSE 0)
    /\ asked # <<>> =>
         /\ pc \in {"queries", "done"}
         /\ i = Len(cities)
         /\ Len(fetchLog) = Len(cities)
         /\ returned # None
    /\ Len(asked) <= Len(test_queries)
    /\ asked = SubSeq(test_queries, 1, Len(asked))
    /\ asked # <<>> => lastQuery.prompt = test_queries[Len(asked)]
    /\ pc = "done" => asked = test_queries

\* an execution that reused the index, did not wait, and finished its queries
C8_Witness ==
    /\ pc = "done"
    /\ hadIndex /\ ~created /\ slept = 0
    /\ upserts # <<>>

\* an execution that created the index and waited
C8_WitnessCreated ==
    /\ pc = "queries" /\ created /\ slept = 30 /\ Len(asked) = 2

\* C9: cities are fetched one at a time in configuration order, each upserted
\* before the next is fetched; a transport failure on the k-th fetch aborts
\* the ingestion without a returned map and without any query, the upserts of
\* the execution being exactly the cities before k fetched with 200, and
\* nothing is fetched or upserted afterwards in that execution.
C9_AbortOnTransportFailure ==
    /\ Len(upserts) = Cardinality(Succeeded)
    /\ UpsertedIds = {cities[k].name : k \in Succeeded}
    /\ \A a, b \in 1..Len(upserts) :
         a < b => \E ka, kb \in Succeeded :
                     /\ ka < kb
                     /\ upserts[a].id = cities[ka].name
                     /\ upserts[b].id = cities[kb].name
    /\ \A k \in 1..Len(fetchLog) :
         fetchLog[k].kind = "error" =>
            /\ k = Len(fetchLog)
            /\ pc = "crashed"
            /\ i = k - 1
            /\ returned = None
            /\ asked = <<>>
            /\ Len(requests) = k
            /\ \A j \in Succeeded : j < k /\ upserts[Cardinality({m \in Succeeded : m <= j})] \in store
            /\ ~ENABLED IngestStep
            /\ ~ENABLED IngestReturn
            /\ ~ENABLED QueryStep

\* the fetch of Bilbao raised after Madrid was upserted and Barcelona skipped
C9_Witness ==
    /\ pc = "crashed"
    /\ Len(fetchLog) = 3
    /\ Succeeded = {1}
    /\ Failed = {2}
    /\ Len(upserts) = 1

\* C10: every record upserted pairs a city's id with the embedding of that
\* city's name, also when cities earlier in the list were skipped.
C10_VectorMatchesId ==
    /\ \A k \in 1..Len(upserts) : upserts[k].values = Embed(upserts[k].id)
    /\ \A r \in store : r.values = Embed(r.id)

\* Madrid was skipped and Barcelona and Bilbao were upserted
C10_Witness ==
    /\ 1 \in Failed
    /\ Len(upserts) = 2
    /\ upserts[1].id = "Barcelona" /\ upserts[1].values = Embed("Barcelona")
    /\ upserts[2].id = "Bilbao" /\ upserts[2].values = Embed("Bilbao")

====
